---------------------------- MODULE Spec2Model ----------------------------
(***************************************************************************)
(* Model of app.py, the Streamlit front end of the data measurements tool. *)
(*                                                                         *)
(* The script is executed top to bottom by the framework on every run, in  *)
(* one process: the logging module's logger registry, the st.cache store   *)
(* of load_or_prepare, the objects it holds and the file system survive    *)
(* from one execution to the next; the local variables of main() do not.   *)
(*                                                                         *)
(* The bodies of main, load_or_prepare and show_column are straight-line   *)
(* code: each is written down as the sequence of its statements, in source *)
(* order, and executed one statement per step.  Every call into the        *)
(* external collaborators (dataset_statistics, streamlit_utils, streamlit, *)
(* os) is recorded, with the arguments it received, in `trace', the        *)
(* history of the current execution.                                       *)
(***************************************************************************)
EXTENDS Naturals, Sequences, FiniteSets, TLC

\* ------------------------------------------------------------- bounds ----
\* Number of distinct dataset selections (ds_args) the sidebar offers.
NumDatasets == 2
\* Number of entries into the module (script executions and direct calls).
MaxRuns == 2

\* ---------------------------------------------------------- constants ----
\* logging.INFO and logging.WARNING (numeric values of the logging module).
INFO == 20
WARNING == 30

Datasets == 1 .. NumDatasets
ColumnIds == {"", " A", " B"}

\* "No value yet" for an object variable (for a dataset-arguments variable it
\* is 0, which is no member of Datasets).
NoObj == [key |-> <<>>, gen |-> 0]

VARIABLES
    pc,          \* position of the interpreter in the script
    runs,        \* number of entries into the module so far
    logs,        \* the module logger: [level, propagate, handlers]
    log_files,   \* whether ./log_files exists
    last_log,    \* the latest logs.* call and the number of records each
                 \* destination received for it
    cache_dir,   \* whether CACHE_DIR is a directory
    memo,        \* st.cache store of load_or_prepare: key -> returned object
    heap,        \* DatasetStatisticsCacheClass objects: id -> [ds_args, calls]
    main,        \* locals of main()
    lp,          \* frame of load_or_prepare
    sc,          \* frame of show_column
    trace        \* calls made during the current execution, in order

vars == <<pc, runs, logs, log_files, last_log, cache_dir, memo, heap,
          main, lp, sc, trace>>

\* ------------------------------------------------------------ logging ----
\* The two handlers built at lines 34-43.
FileHandler == [kind |-> "file", level |-> INFO]
StreamHandler == [kind |-> "stream", level |-> WARNING]

\* A wrong guard: handlers are (re)attached on every execution.
AttachHandlersAlways(handlers) == handlers \o <<FileHandler, StreamHandler>>

\* Lines 29-46: handlers are attached only when the logger has none.
AttachHandlers(handlers) ==
    IF handlers = <<>>
    THEN handlers \o <<FileHandler, StreamHandler>>
    ELSE handlers

\* Number of handlers of the given kind that emit a record of level levelno
\* (Logger.callHandlers: a handler emits when levelno >= handler.level).
Emitted(handlers, kind, levelno) ==
    Cardinality({i \in 1 .. Len(handlers) :
                    handlers[i].kind = kind /\ levelno >= handlers[i].level})

\* logs.info / logs.warning: the record is created only when the logger is
\* enabled for the level (levelno >= logger level, set at line 26); it is then
\* handed to the logger's own handlers (propagate is False, line 27).
LogCall(logger, levelno, msg) ==
    LET enabled == levelno >= logger.level
    IN  [msg |-> msg, levelno |-> levelno,
         file |-> IF enabled THEN Emitted(logger.handlers, "file", levelno) ELSE 0,
         stream |-> IF enabled THEN Emitted(logger.handlers, "stream", levelno) ELSE 0]

NoLog == [msg |-> "", levelno |-> 0, file |-> 0, stream |-> 0]

\* ---------------------------------------------------- statement lists ----
Log(levelno, msg) == [op |-> "log", levelno |-> levelno, msg |-> msg]
\* The keyword argument forgotten: the step runs with its own default.
PrepWithoutFlag(fn, use_cache) == [op |-> "prep", fn |-> fn, use_cache |-> FALSE]

\* A dstats.load_or_prepare_*(use_cache=use_cache) call of lines 105-124.
Prep(fn, use_cache) == [op |-> "prep", fn |-> fn, use_cache |-> use_cache]

\* Lines 104-124 with the embeddings step wrongly made unconditional.
LoadBodyAlwaysEmbeddings(show_embeddings, use_cache) ==
    << Log(WARNING, "Loading Dataset"), Prep("load_or_prepare_dataset", use_cache),
       Log(WARNING, "Extracting Labels"), Prep("load_or_prepare_labels", use_cache),
       Log(WARNING, "Computing Text Lengths"), Prep("load_or_prepare_text_lengths", use_cache),
       Log(WARNING, "Extracting Vocabulary"), Prep("load_or_prepare_vocab", use_cache),
       Log(WARNING, "Calculating General Statistics..."),
       Prep("load_or_prepare_general_stats", use_cache),
       Log(WARNING, "Completed Calculation."),
       Log(WARNING, "Calculating Fine-Grained Statistics..."),
       Log(WARNING, "Loading Embeddings"), Prep("load_or_prepare_embeddings", use_cache),
       Log(WARNING, "Loading Terms for nPMI"), Prep("load_or_prepare_npmi_terms", use_cache),
       Log(WARNING, "Loading Zipf"), Prep("load_or_prepare_zipf", use_cache) >>

\* Lines 104-124 of load_or_prepare: the statements after the construction of
\* dstats, in source order.
LoadBody(show_embeddings, use_cache) ==
    << Log(WARNING, "Loading Dataset"), Prep("load_or_prepare_dataset", use_cache),
       Log(WARNING, "Extracting Labels"), Prep("load_or_prepare_labels", use_cache),
       Log(WARNING, "Computing Text Lengths"), Prep("load_or_prepare_text_lengths", use_cache),
       Log(WARNING, "Extracting Vocabulary"), Prep("load_or_prepare_vocab", use_cache),
       Log(WARNING, "Calculating General Statistics..."),
       Prep("load_or_prepare_general_stats", use_cache),
       Log(WARNING, "Completed Calculation."),
       Log(WARNING, "Calculating Fine-Grained Statistics...") >>
    \o (IF show_embeddings
        THEN << Log(WARNING, "Loading Embeddings"),
                Prep("load_or_prepare_embeddings", use_cache) >>
        ELSE << >>)
    \o << Log(WARNING, "Loading Terms for nPMI"), Prep("load_or_prepare_npmi_terms", use_cache),
          Log(WARNING, "Loading Zipf"), Prep("load_or_prepare_zipf", use_cache) >>

\* Lines 141-180 of show_column, in source order.  A widget statement carries
\* the column id it is given, an nPMI statement the use_cache it is given.
Widget(fn, column_id) == [op |-> "widget", fn |-> fn, column_id |-> column_id]
Call(fn, use_cache) == [op |-> "call", fn |-> fn, use_cache |-> use_cache]
NpmiWidget(column_id, use_cache) ==
    [op |-> "widget", fn |-> "npmi_widget", column_id |-> column_id,
     use_cache |-> use_cache]

\* The nPMI part moved to the top of show_column.
ShowBodyNpmiFirst(show_embeddings, column_id, use_cache) ==
    << Widget("markdown", column_id),
       Log(INFO, "showing npmi widget"),
       Call("nPMIStatisticsCacheClass", use_cache),
       Call("get_available_terms", use_cache),
       NpmiWidget(column_id, use_cache),
       Log(INFO, "showing header"),
       Widget("expander_header", column_id),
       Log(INFO, "showing general stats"),
       Widget("expander_general_stats", column_id),
       Widget("expander_label_distribution", column_id),
       Widget("expander_text_lengths", column_id),
       Widget("expander_text_duplicates", column_id),
       Log(INFO, "showing zipf"),
       Widget("expander_zipf", column_id) >>
    \o (IF show_embeddings
        THEN << Widget("expander_text_embeddings", column_id) >>
        ELSE << >>)

ShowBody(show_embeddings, column_id, use_cache) ==
    << Widget("markdown", column_id),
       Log(INFO, "showing header"),
       Widget("expander_header", column_id),
       Log(INFO, "showing general stats"),
       Widget("expander_general_stats", column_id),
       Widget("expander_label_distribution", column_id),
       Widget("expander_text_lengths", column_id),
       Widget("expander_text_duplicates", column_id),
       Log(INFO, "showing npmi widget"),
       Call("nPMIStatisticsCacheClass", use_cache),
       Call("get_available_terms", use_cache),
       NpmiWidget(column_id, use_cache),
       Log(INFO, "showing zipf"),
       Widget("expander_zipf", column_id) >>
    \o (IF show_embeddings
        THEN << Widget("expander_text_embeddings", column_id) >>
        ELSE << >>)

\* Default value of show_column's use_cache parameter (line 128).
ShowColumnDefaultUseCache == TRUE
\* The local use_cache of main (line 193).
MainUseCache == TRUE

\* Lines 198-217 of main: the statements of the branch taken, in source order.
Select(column_id, target) ==
    [op |-> "select", column_id |-> column_id, target |-> target]
Load(args, target) == [op |-> "load", args |-> args, target |-> target]
Show(dstats, column_id) == [op |-> "show", dstats |-> dstats, column_id |-> column_id]

\* The two results of load_or_prepare assigned crosswise.
MainBodyCrossed(compare_mode) ==
    IF compare_mode
    THEN << Log(WARNING, "Using Comparison Mode"),
            Select(" A", "left"),
            Select(" B", "right"),
            Load("right", "left"),
            Show("left", " A"),
            Load("left", "right"),
            Show("right", " B") >>
    ELSE << Log(WARNING, "Using Single Dataset Mode"),
            Select("", "single"),
            Load("single", "single"),
            Show("single", "") >>

\* Both datasets loaded before either column is shown.
MainBodyLoadsFirst(compare_mode) ==
    IF compare_mode
    THEN << Log(WARNING, "Using Comparison Mode"),
            Select(" A", "left"),
            Select(" B", "right"),
            Load("left", "left"),
            Load("right", "right"),
            Show("left", " A"),
            Show("right", " B") >>
    ELSE << Log(WARNING, "Using Single Dataset Mode"),
            Select("", "single"),
            Load("single", "single"),
            Show("single", "") >>

MainBody(compare_mode) ==
    IF compare_mode
    THEN << Log(WARNING, "Using Comparison Mode"),
            Select(" A", "left"),
            Select(" B", "right"),
            Load("left", "left"),
            Show("left", " A"),
            Load("right", "right"),
            Show("right", " B") >>
    ELSE << Log(WARNING, "Using Single Dataset Mode"),
            Select("", "single"),
            Load("single", "single"),
            Show("single", "") >>

MainVars == {"left", "right", "single"}

\* ------------------------------------------------------------ st.cache ----
\* A key that leaves show_embeddings out.
CacheKeyWithoutEmbeddings(ds_args, show_embeddings, use_cache) ==
    <<ds_args, use_cache>>

\* Lines 79-85: st.cache keys a call of load_or_prepare on its arguments.
CacheKey(ds_args, show_embeddings, use_cache) ==
    <<ds_args, show_embeddings, use_cache>>

\* The identity of the object a call DatasetStatisticsCacheClass(CACHE_DIR,
\* **ds_args) creates (line 103): the arguments of the enclosing call and the
\* number of objects created for them so far, so that every construction
\* yields an object distinct from all earlier ones.
NewObj(ds_args, show_embeddings, use_cache) ==
    LET k == <<ds_args, show_embeddings, use_cache>>
    IN  [key |-> k, gen |-> Cardinality({o \in DOMAIN heap : o.key = k}) + 1]

\* Frames at rest.
NoMain ==
    [compare_mode |-> FALSE, show_embeddings |-> FALSE, use_cache |-> FALSE,
     i |-> 0,
     args |-> [v \in MainVars |-> 0],
     dstats |-> [v \in MainVars |-> NoObj]]
NoLoad ==
    [caller |-> "", target |-> "", ds_args |-> 0, show_embeddings |-> FALSE,
     use_cache |-> FALSE, dstats |-> NoObj, i |-> 0]
NoShow ==
    [caller |-> "", dstats |-> NoObj, show_embeddings |-> FALSE, column_id |-> "",
     use_cache |-> FALSE, i |-> 0]

Init ==
    /\ pc = "start"
    /\ runs = 1
    /\ logs = [level |-> 0, propagate |-> TRUE, handlers |-> << >>]
    /\ log_files \in BOOLEAN
    /\ last_log = NoLog
    /\ cache_dir \in BOOLEAN
    /\ memo = << >>
    /\ heap = << >>
    /\ main = NoMain
    /\ lp = NoLoad
    /\ sc = NoShow
    /\ trace = << >>

\* ------------------------------------------------------ module top level ----
\* Lines 25-46: logger configuration, executed on every run of the script.
LoggerSetup ==
    /\ pc = "start"
    /\ logs' = [level |-> WARNING, propagate |-> FALSE,
                handlers |-> AttachHandlers(logs.handlers)]
    /\ log_files' = IF logs.handlers = << >> THEN TRUE ELSE log_files
    /\ pc' = "main"
    /\ UNCHANGED <<runs, last_log, cache_dir, memo, heap, main, lp, sc, trace>>

\* ------------------------------------------------------------------ main ----
MainStmts == MainBody(main.compare_mode)
InMain == pc = "in_main" /\ main.i <= Len(MainStmts)

\* Lines 185-195: the two sidebar checkboxes are read, use_cache is set.
MainBegin ==
    /\ pc = "main"
    /\ \E cm \in BOOLEAN, se \in BOOLEAN :
          main' = [NoMain EXCEPT !.compare_mode = cm, !.show_embeddings = se,
                                 !.use_cache = MainUseCache, !.i = 1]
    /\ pc' = "in_main"
    /\ UNCHANGED <<runs, logs, log_files, last_log, cache_dir, memo, heap, lp, sc,
                   trace>>

\* Lines 199 and 214: logs.warning of the mode.
MainLog ==
    /\ InMain
    /\ MainStmts[main.i].op = "log"
    /\ last_log' = LogCall(logs, MainStmts[main.i].levelno, MainStmts[main.i].msg)
    /\ main' = [main EXCEPT !.i = @ + 1]
    /\ UNCHANGED <<pc, runs, logs, log_files, cache_dir, memo, heap, lp, sc, trace>>

\* Lines 200, 201 and 215: st_utils.sidebar_selection(ds_name_to_dict, column_id).
MainSelect ==
    /\ InMain
    /\ MainStmts[main.i].op = "select"
    /\ \E ds \in Datasets :
          /\ main' = [main EXCEPT !.args[MainStmts[main.i].target] = ds,
                                  !.i = @ + 1]
          /\ trace' = Append(trace, [kind |-> "select",
                                     column_id |-> MainStmts[main.i].column_id,
                                     ds_args |-> ds])
    /\ UNCHANGED <<pc, runs, logs, log_files, last_log, cache_dir, memo, heap, lp,
                   sc>>

\* Lines 203, 208 and 216: load_or_prepare(args, show_embeddings,
\* use_cache=use_cache) is called.
MainCallLoad ==
    /\ InMain
    /\ MainStmts[main.i].op = "load"
    /\ lp' = [caller |-> "main", target |-> MainStmts[main.i].target,
              ds_args |-> main.args[MainStmts[main.i].args],
              show_embeddings |-> main.show_embeddings,
              use_cache |-> main.use_cache, dstats |-> NoObj, i |-> 0]
    /\ trace' = Append(trace, [kind |-> "load_call",
                               ds_args |-> main.args[MainStmts[main.i].args],
                               show_embeddings |-> main.show_embeddings,
                               use_cache |-> main.use_cache])
    /\ pc' = "load_lookup"
    /\ UNCHANGED <<runs, logs, log_files, last_log, cache_dir, memo, heap, main, sc>>

\* Lines 207, 212 and 217: show_column(dstats, ds_name_to_dict, show_embeddings,
\* column_id) is called, use_cache left to its default.
MainCallShow ==
    /\ InMain
    /\ MainStmts[main.i].op = "show"
    /\ sc' = [caller |-> "main", dstats |-> main.dstats[MainStmts[main.i].dstats],
              show_embeddings |-> main.show_embeddings,
              column_id |-> MainStmts[main.i].column_id,
              use_cache |-> ShowColumnDefaultUseCache, i |-> 1]
    /\ trace' = Append(trace, [kind |-> "show_call",
                               obj |-> main.dstats[MainStmts[main.i].dstats],
                               show_embeddings |-> main.show_embeddings,
                               column_id |-> MainStmts[main.i].column_id,
                               use_cache |-> ShowColumnDefaultUseCache])
    /\ pc' = "show_body"
    /\ UNCHANGED <<runs, logs, log_files, last_log, cache_dir, memo, heap, main, lp>>

\* main returns (after line 212 or 217).
MainEnd ==
    /\ pc = "in_main"
    /\ main.i > Len(MainStmts)
    /\ pc' = "done"
    /\ UNCHANGED <<runs, logs, log_files, last_log, cache_dir, memo, heap, main,
                   lp, sc, trace>>

\* ------------------------------------------------------- load_or_prepare ----
LoadStmts == LoadBody(lp.show_embeddings, lp.use_cache)

\* The value obj goes back to the caller of load_or_prepare.
ReturnLoad(obj, cached) ==
    /\ trace' = Append(trace, [kind |-> "load_ret", obj |-> obj, cached |-> cached])
    /\ lp' = NoLoad
    /\ IF lp.caller = "main"
       THEN /\ main' = [main EXCEPT !.dstats[lp.target] = obj, !.i = @ + 1]
            /\ pc' = "in_main"
       ELSE /\ main' = main
            /\ pc' = "done"

\* Lines 79-85: the st.cache wrapper.  A call whose key is in the store returns
\* the stored object and the body does not run; otherwise the body runs.
CacheLookup ==
    /\ pc = "load_lookup"
    /\ LET k == CacheKey(lp.ds_args, lp.show_embeddings, lp.use_cache)
       IN  IF k \in DOMAIN memo
           THEN ReturnLoad(memo[k], TRUE)
           ELSE /\ pc' = "load_bootstrap"
                /\ UNCHANGED <<main, lp, trace>>
    /\ UNCHANGED <<runs, logs, log_files, last_log, cache_dir, memo, heap, sc>>

\* The test of line 96 inverted.
MkdirNeededInverted(is_dir) == is_dir

\* Line 96: whether mkdir is needed, from the result of isdir(CACHE_DIR).
MkdirNeeded(is_dir) == ~is_dir

\* Lines 96-100: the cache directory is created when it is missing.
CacheDirBootstrap ==
    /\ pc = "load_bootstrap"
    /\ IF MkdirNeeded(cache_dir)
       THEN /\ last_log' = LogCall(logs, WARNING, "Creating cache")
            /\ trace' = trace \o << [kind |-> "isdir", result |-> cache_dir],
                                    [kind |-> "mkdir", existed |-> cache_dir] >>
            /\ cache_dir' = TRUE
       ELSE /\ trace' = Append(trace, [kind |-> "isdir", result |-> cache_dir])
            /\ UNCHANGED <<last_log, cache_dir>>
    /\ pc' = "load_construct"
    /\ UNCHANGED <<runs, logs, log_files, memo, heap, main, lp, sc>>

\* Lines 101-103: logs.warning("Using cache") if use_cache; dstats is built.
LoadConstruct ==
    /\ pc = "load_construct"
    /\ last_log' = IF lp.use_cache
                   THEN LogCall(logs, WARNING, "Using cache")
                   ELSE last_log
    /\ LET o == NewObj(lp.ds_args, lp.show_embeddings, lp.use_cache)
       IN  /\ heap' = (o :> [ds_args |-> lp.ds_args, calls |-> << >>]) @@ heap
           /\ lp' = [lp EXCEPT !.dstats = o, !.i = 1]
           /\ trace' = Append(trace, [kind |-> "construct", obj |-> o,
                                      cache_dir |-> cache_dir])
    /\ pc' = "load_body"
    /\ UNCHANGED <<runs, logs, log_files, cache_dir, memo, main, sc>>

InLoad == pc = "load_body" /\ lp.i <= Len(LoadStmts)

\* The logs.warning calls of lines 104-123.
LoadLog ==
    /\ InLoad
    /\ LoadStmts[lp.i].op = "log"
    /\ last_log' = LogCall(logs, LoadStmts[lp.i].levelno, LoadStmts[lp.i].msg)
    /\ lp' = [lp EXCEPT !.i = @ + 1]
    /\ UNCHANGED <<pc, runs, logs, log_files, cache_dir, memo, heap, main, sc,
                   trace>>

\* The dstats.load_or_prepare_*(use_cache=use_cache) calls of lines 105-124.
LoadPrep ==
    /\ InLoad
    /\ LoadStmts[lp.i].op = "prep"
    /\ heap' = [heap EXCEPT ![lp.dstats].calls =
                   Append(@, [fn |-> LoadStmts[lp.i].fn,
                              use_cache |-> LoadStmts[lp.i].use_cache])]
    /\ trace' = Append(trace, [kind |-> "step", fn |-> LoadStmts[lp.i].fn,
                               obj |-> lp.dstats,
                               use_cache |-> LoadStmts[lp.i].use_cache,
                               cache_dir |-> cache_dir])
    /\ lp' = [lp EXCEPT !.i = @ + 1]
    /\ UNCHANGED <<pc, runs, logs, log_files, last_log, cache_dir, memo, main, sc>>

\* Line 125: return dstats; st.cache stores the value under the call's key.
LoadReturn ==
    /\ pc = "load_body"
    /\ lp.i > Len(LoadStmts)
    /\ memo' = (CacheKey(lp.ds_args, lp.show_embeddings, lp.use_cache) :> lp.dstats)
               @@ memo
    /\ ReturnLoad(lp.dstats, FALSE)
    /\ UNCHANGED <<runs, logs, log_files, last_log, cache_dir, heap, sc>>

\* ----------------------------------------------------------- show_column ----
ShowStmts == ShowBody(sc.show_embeddings, sc.column_id, sc.use_cache)
InShow == pc = "show_body" /\ sc.i <= Len(ShowStmts)

\* The logs.info calls of lines 143, 145, 162 and 170.
ShowLog ==
    /\ InShow
    /\ ShowStmts[sc.i].op = "log"
    /\ last_log' = LogCall(logs, ShowStmts[sc.i].levelno, ShowStmts[sc.i].msg)
    /\ sc' = [sc EXCEPT !.i = @ + 1]
    /\ UNCHANGED <<pc, runs, logs, log_files, cache_dir, memo, heap, main, lp,
                   trace>>

\* The st.markdown and st_utils.* calls of lines 142-180.
ShowWidget ==
    /\ InShow
    /\ ShowStmts[sc.i].op = "widget"
    /\ trace' = Append(trace, [kind |-> "widget", obj |-> sc.dstats,
                               stmt |-> ShowStmts[sc.i]])
    /\ sc' = [sc EXCEPT !.i = @ + 1]
    /\ UNCHANGED <<pc, runs, logs, log_files, last_log, cache_dir, memo, heap,
                   main, lp>>

\* Lines 163-166: nPMIStatisticsCacheClass(dstats, use_cache=use_cache) and
\* npmi_stats.get_available_terms(use_cache=use_cache).
ShowNpmi ==
    /\ InShow
    /\ ShowStmts[sc.i].op = "call"
    /\ trace' = Append(trace, [kind |-> "npmi", obj |-> sc.dstats,
                               stmt |-> ShowStmts[sc.i]])
    /\ sc' = [sc EXCEPT !.i = @ + 1]
    /\ UNCHANGED <<pc, runs, logs, log_files, last_log, cache_dir, memo, heap,
                   main, lp>>

\* show_column returns (after line 171 or 180).
ShowReturn ==
    /\ pc = "show_body"
    /\ sc.i > Len(ShowStmts)
    /\ trace' = Append(trace, [kind |-> "show_ret", obj |-> sc.dstats])
    /\ sc' = NoShow
    /\ IF sc.caller = "main"
       THEN /\ main' = [main EXCEPT !.i = @ + 1]
            /\ pc' = "in_main"
       ELSE /\ main' = main
            /\ pc' = "done"
    /\ UNCHANGED <<runs, logs, log_files, last_log, cache_dir, memo, heap, lp>>

\* ------------------------------------------------------------ entry points ----
\* The framework executes the script again (any interaction with a widget), in
\* the same process: module-level state is kept, the locals are new.
Rerun ==
    /\ pc = "done"
    /\ runs < MaxRuns
    /\ runs' = runs + 1
    /\ pc' = "start"
    /\ main' = NoMain
    /\ trace' = << >>
    /\ last_log' = NoLog
    /\ UNCHANGED <<logs, log_files, cache_dir, memo, heap, lp, sc>>

\* load_or_prepare called on its own, with any arguments.
DirectLoad ==
    /\ pc = "done"
    /\ runs < MaxRuns
    /\ runs' = runs + 1
    /\ \E ds \in Datasets, se \in BOOLEAN, uc \in BOOLEAN :
          /\ lp' = [caller |-> "direct", target |-> "", ds_args |-> ds,
                    show_embeddings |-> se, use_cache |-> uc, dstats |-> NoObj,
                    i |-> 0]
          /\ trace' = << [kind |-> "load_call", ds_args |-> ds,
                          show_embeddings |-> se, use_cache |-> uc] >>
    /\ pc' = "load_lookup"
    /\ main' = NoMain
    /\ last_log' = NoLog
    /\ UNCHANGED <<logs, log_files, cache_dir, memo, heap, sc>>

\* show_column called on its own, on any existing statistics object, with any
\* arguments.
DirectShow ==
    /\ pc = "done"
    /\ runs < MaxRuns
    /\ runs' = runs + 1
    /\ \E o \in DOMAIN heap, se \in BOOLEAN, col \in ColumnIds, uc \in BOOLEAN :
          /\ sc' = [caller |-> "direct", dstats |-> o, show_embeddings |-> se,
                    column_id |-> col, use_cache |-> uc, i |-> 1]
          /\ trace' = << [kind |-> "show_call", obj |-> o, show_embeddings |-> se,
                          column_id |-> col, use_cache |-> uc] >>
    /\ pc' = "show_body"
    /\ main' = NoMain
    /\ last_log' = NoLog
    /\ UNCHANGED <<logs, log_files, cache_dir, memo, heap, lp>>

\* The script as the framework runs it.
Next ==
    \/ LoggerSetup
    \/ MainBegin
    \/ MainLog
    \/ MainSelect
    \/ MainCallLoad
    \/ MainCallShow
    \/ MainEnd
    \/ CacheLookup
    \/ CacheDirBootstrap
    \/ LoadConstruct
    \/ LoadLog
    \/ LoadPrep
    \/ LoadReturn
    \/ ShowLog
    \/ ShowWidget
    \/ ShowNpmi
    \/ ShowReturn
    \/ Rerun

Spec == Init /\ [][Next]_vars

\* The script, and load_or_prepare and show_column called with any arguments.
NextCalls == Next \/ DirectLoad \/ DirectShow

SpecCalls == Init /\ [][NextCalls]_vars

\* ================================================================ claims ====
\* Reading the history of the current execution.
Idx == 1 .. Len(trace)
IsPrefix(s, t) == Len(s) <= Len(t) /\ SubSeq(t, 1, Len(s)) = s
Greatest(S) == CHOOSE x \in S : \A y \in S : y <= x
Least(S) == CHOOSE x \in S : \A y \in S : x <= y
\* The latest event of one of the given kinds at or before position i (0: none).
LastOf(kinds, i) == Greatest({0} \cup {j \in 1 .. i : trace[j].kind \in kinds})
\* The call of load_or_prepare, or of show_column, that event i belongs to.
EnclosingLoad(i) == LastOf({"load_call"}, i)
EnclosingShow(i) == LastOf({"show_call"}, i)
\* The events of the given kinds among trace[i .. j].
EventsIn(kinds, i, j) == SelectSeq(SubSeq(trace, i, j), LAMBDA e : e.kind \in kinds)
Fns(s) == [k \in 1 .. Len(s) |-> s[k].fn]
StmtFns(s) == [k \in 1 .. Len(s) |-> s[k].stmt.fn]
Kinds(s) == [k \in 1 .. Len(s) |-> s[k].kind]

\* The order of the preparation steps, as the claims state it.
PrepOrder(show_embeddings) ==
    << "load_or_prepare_dataset", "load_or_prepare_labels",
       "load_or_prepare_text_lengths", "load_or_prepare_vocab",
       "load_or_prepare_general_stats" >>
    \o (IF show_embeddings THEN << "load_or_prepare_embeddings" >> ELSE << >>)
    \o << "load_or_prepare_npmi_terms", "load_or_prepare_zipf" >>

\* The order of the calls of show_column, as the claims state it.
ShowOrder(show_embeddings) ==
    << "markdown", "expander_header", "expander_general_stats",
       "expander_label_distribution", "expander_text_lengths",
       "expander_text_duplicates", "nPMIStatisticsCacheClass",
       "get_available_terms", "npmi_widget", "expander_zipf" >>
    \o (IF show_embeddings THEN << "expander_text_embeddings" >> ELSE << >>)

LoadRets == {j \in Idx : trace[j].kind = "load_ret"}

\* The call returning at j has itself constructed one object, invoked the steps
\* on it in order, each once, and returned it.
BodyRan(j) ==
    LET i == EnclosingLoad(j)
        steps == EventsIn({"step"}, i, j)
        made == EventsIn({"construct"}, i, j)
    IN  /\ i > 0
        /\ Fns(steps) = PrepOrder(trace[i].show_embeddings)
        /\ \A k \in 1 .. Len(steps) : steps[k].obj = trace[j].obj
        /\ Len(made) = 1
        /\ made[1].obj = trace[j].obj
        /\ trace[j].obj \in DOMAIN heap
        /\ Fns(heap[trace[j].obj].calls) = PrepOrder(trace[i].show_embeddings)

\* The call returning at j has invoked nothing and returned the object an
\* earlier call with equal arguments prepared.
ServedFromStore(j) ==
    LET i == EnclosingLoad(j)
        o == trace[j].obj
    IN  /\ i > 0
        /\ j = i + 1
        /\ o \in DOMAIN heap
        /\ o.key = <<trace[i].ds_args, trace[i].show_embeddings, trace[i].use_cache>>
        /\ Fns(heap[o].calls) = PrepOrder(trace[i].show_embeddings)

\* C1 as stated: every call of load_or_prepare that returns has invoked the
\* preparation steps on one object, each once, in the fixed order, and returns
\* that object.
C1_EveryCallRunsSteps == \A j \in LoadRets : BodyRan(j)

\* C1, amended: every call of load_or_prepare whose body runs has invoked the
\* preparation steps on one object, each once, in the fixed order, and returns
\* that object; a call that st.cache answers from its store invokes no step and
\* returns the object an earlier call with equal arguments prepared that way.
C1_BodyRunsSteps ==
    \A j \in LoadRets :
        IF trace[j].cached THEN ServedFromStore(j) ELSE BodyRan(j)

\* Reached: one execution in which a call ran the body with the embeddings step
\* and a later call was answered from the store.
C1_Witness ==
    \E j1 \in LoadRets, j2 \in LoadRets :
        /\ j1 < j2
        /\ ~trace[j1].cached
        /\ trace[EnclosingLoad(j1)].show_embeddings
        /\ trace[j2].cached

\* C2: mkdir(CACHE_DIR) is called exactly when the isdir check of the call found
\* no directory, before the object is constructed and before any step; the
\* directory exists whenever the object is constructed or a step runs; an
\* existing directory is not touched.
C2_CacheDirBootstrap ==
    /\ \A i \in Idx :
          trace[i].kind = "mkdir" =>
             /\ i > 1
             /\ trace[i - 1].kind = "isdir"
             /\ ~trace[i - 1].result
             /\ ~trace[i].existed
             /\ EventsIn({"construct", "step"}, EnclosingLoad(i), i) = << >>
    /\ \A i \in Idx :
          trace[i].kind = "isdir" =>
             /\ EventsIn({"construct", "step"}, EnclosingLoad(i), i) = << >>
             /\ i < Len(trace) =>
                   (trace[i + 1].kind = "mkdir" <=> ~trace[i].result)
    /\ \A i \in Idx :
          trace[i].kind \in {"construct", "step"} =>
             /\ trace[i].cache_dir
             /\ Len(EventsIn({"isdir"}, EnclosingLoad(i), i)) = 1
    /\ pc \in {"load_construct", "load_body"} => cache_dir

\* Reached: a call created the directory and a step then ran.
C2_Witness ==
    \E i \in Idx, j \in Idx :
        /\ i < j
        /\ trace[i].kind = "mkdir"
        /\ trace[j].kind = "step"
        /\ EnclosingLoad(i) = EnclosingLoad(j)

\* C3: a completed run of main makes one selection (""), one call of
\* load_or_prepare and one of show_column ("") in single mode; two selections
\* (" A", " B"), two calls of load_or_prepare and two of show_column in
\* comparison mode, each column showing what was loaded from its own selection.
C3_ModesAndColumns ==
    pc = "done" =>
        LET cols == IF main.compare_mode THEN << " A", " B" >> ELSE << "" >>
            sels == EventsIn({"select"}, 1, Len(trace))
            calls == EventsIn({"load_call"}, 1, Len(trace))
            rets == EventsIn({"load_ret"}, 1, Len(trace))
            shows == EventsIn({"show_call"}, 1, Len(trace))
        IN  /\ [k \in 1 .. Len(sels) |-> sels[k].column_id] = cols
            /\ [k \in 1 .. Len(shows) |-> shows[k].column_id] = cols
            /\ Len(calls) = Len(cols)
            /\ Len(rets) = Len(cols)
            /\ Len(EventsIn({"show_ret"}, 1, Len(trace))) = Len(cols)
            /\ \A k \in 1 .. Len(cols) :
                  /\ calls[k].ds_args = sels[k].ds_args
                  /\ shows[k].obj = rets[k].obj
                  /\ shows[k].obj \in DOMAIN heap
                  /\ heap[shows[k].obj].ds_args = sels[k].ds_args

\* Reached: a completed comparison of two different datasets.
C3_Witness ==
    /\ pc = "done"
    /\ main.compare_mode
    /\ main.args["left"] # main.args["right"]
    /\ main.dstats["left"] # main.dstats["right"]

IsEmbeddingWidget(e) ==
    e.kind = "widget" /\ e.stmt.fn = "expander_text_embeddings"
EmbeddingsPrepared(o) ==
    /\ o \in DOMAIN heap
    /\ \E k \in 1 .. Len(heap[o].calls) :
          heap[o].calls[k].fn = "load_or_prepare_embeddings"

\* C4: in a run of main the embeddings widget is rendered for an object exactly
\* when 'Show embeddings' is on, and only for an object on which
\* load_or_prepare_embeddings was invoked; when it is off, neither the
\* embeddings step nor the embeddings widget is invoked.
C4_EmbeddingsConsistent ==
    /\ \A i \in Idx :
          IsEmbeddingWidget(trace[i]) =>
             main.show_embeddings /\ EmbeddingsPrepared(trace[i].obj)
    /\ \A j \in Idx :
          trace[j].kind = "show_ret" =>
             (main.show_embeddings <=>
                 \E i \in EnclosingShow(j) .. j :
                     IsEmbeddingWidget(trace[i]) /\ trace[i].obj = trace[j].obj)
    /\ ~main.show_embeddings =>
          \A i \in Idx :
             /\ ~IsEmbeddingWidget(trace[i])
             /\ trace[i].kind = "step" => trace[i].fn # "load_or_prepare_embeddings"

\* Reached: the embeddings widget rendered for an object that st.cache returned
\* from its store.
C4_Witness ==
    \E i \in Idx, j \in LoadRets :
        /\ j < i
        /\ IsEmbeddingWidget(trace[i])
        /\ trace[j].cached
        /\ trace[j].obj = trace[i].obj

\* C5: every preparation step receives the use_cache of its call of
\* load_or_prepare; the nPMI constructor, get_available_terms and npmi_widget
\* receive the use_cache of their call of show_column; in a run of main both
\* load_or_prepare and show_column are given True.
C5_UseCachePropagated ==
    /\ \A i \in Idx :
          trace[i].kind = "step" =>
             /\ EnclosingLoad(i) > 0
             /\ trace[i].use_cache = trace[EnclosingLoad(i)].use_cache
    /\ \A i \in Idx :
          (trace[i].kind = "npmi" \/
             (trace[i].kind = "widget" /\ trace[i].stmt.fn = "npmi_widget")) =>
             /\ EnclosingShow(i) > 0
             /\ trace[i].stmt.use_cache = trace[EnclosingShow(i)].use_cache
    /\ \A j \in Idx :
          trace[j].kind = "show_ret" =>
             Len(SelectSeq(SubSeq(trace, EnclosingShow(j), j),
                           LAMBDA e : e.kind \in {"npmi", "widget"}
                                      /\ "use_cache" \in DOMAIN e.stmt)) = 3
    /\ main.i > 0 =>
          \A i \in Idx :
             trace[i].kind \in {"load_call", "show_call", "step"} =>
                trace[i].use_cache = TRUE

\* Reached: a call of load_or_prepare with use_cache False has run all its
\* steps and returned.
C5_Witness ==
    \E i \in Idx, j \in LoadRets :
        /\ i < j
        /\ trace[i].kind = "step"
        /\ ~trace[i].use_cache
        /\ trace[i].fn = "load_or_prepare_zipf"

PhaseKinds == {"load_call", "load_ret", "show_call", "show_ret"}
Phases == EventsIn(PhaseKinds, 1, Len(trace))
\* The calls and returns of a run of main, in the order the claims state.
PhaseOrder(compare_mode) ==
    IF compare_mode
    THEN << "load_call", "load_ret", "show_call", "show_ret",
            "load_call", "load_ret", "show_call", "show_ret" >>
    ELSE << "load_call", "load_ret", "show_call", "show_ret" >>
PreparedToTheEnd(o) ==
    /\ o \in DOMAIN heap
    /\ Len(heap[o].calls) >= Len(PrepOrder(FALSE))
    /\ heap[o].calls[Len(heap[o].calls)].fn = "load_or_prepare_zipf"

\* C6: in a run of main show_column is called on an object only after
\* load_or_prepare has returned it with all steps up to load_or_prepare_zipf
\* done; the calls occur in the order load A, show A, load B, show B; every
\* preparation event lies inside a call of load_or_prepare and every widget
\* inside a call of show_column, so nothing of the right dataset is prepared
\* before the left column is rendered in full.
C6_PrepareBeforeShow ==
    /\ IsPrefix(Kinds(Phases), PhaseOrder(main.compare_mode))
    /\ \A k \in 1 .. Len(Phases) :
          /\ Phases[k].kind = "show_call" =>
                /\ Phases[k].obj = Phases[k - 1].obj
                /\ PreparedToTheEnd(Phases[k].obj)
                /\ Phases[k].column_id =
                      (IF ~main.compare_mode THEN "" ELSE IF k = 3 THEN " A" ELSE " B")
          /\ Phases[k].kind = "load_call" =>
                Phases[k].ds_args =
                   (IF ~main.compare_mode THEN main.args["single"]
                    ELSE IF k = 1 THEN main.args["left"] ELSE main.args["right"])
    /\ \A i \in Idx :
          /\ trace[i].kind \in {"isdir", "mkdir", "construct", "step"} =>
                LastOf(PhaseKinds, i) > 0
                /\ trace[LastOf(PhaseKinds, i)].kind = "load_call"
          /\ trace[i].kind \in {"widget", "npmi"} =>
                LastOf(PhaseKinds, i) > 0
                /\ trace[LastOf(PhaseKinds, i)].kind = "show_call"
          /\ trace[i].kind = "select" => LastOf(PhaseKinds, i) = 0

\* Reached: a completed comparison in which both calls of load_or_prepare ran
\* their steps.
C6_Witness ==
    /\ pc = "done"
    /\ main.compare_mode
    /\ Len(EventsIn({"construct"}, 1, Len(trace))) = 2

\* The events of the call of show_column that starts at i.
ShowSpan(i) ==
    LET ends == {j \in i .. Len(trace) : trace[j].kind = "show_ret"}
    IN  SubSeq(trace, i + 1, IF ends = {} THEN Len(trace) ELSE Least(ends) - 1)
ShowDone(i) == \E j \in i .. Len(trace) : trace[j].kind = "show_ret"

\* C7: a call of show_column makes its calls in the fixed order, each at most
\* once (all of them once it has returned), the embeddings widget only with
\* show_embeddings; every widget receives the column_id of the call, and every
\* call is made on the object given to show_column.
C7_WidgetOrder ==
    \A i \in Idx :
        trace[i].kind = "show_call" =>
           LET span == ShowSpan(i)
               order == ShowOrder(trace[i].show_embeddings)
           IN  /\ \A k \in 1 .. Len(span) :
                     /\ span[k].kind \in {"widget", "npmi"}
                     /\ span[k].obj = trace[i].obj
                     /\ span[k].kind = "widget" =>
                           span[k].stmt.column_id = trace[i].column_id
               /\ IsPrefix(StmtFns(span), order)
               /\ ShowDone(i) => StmtFns(span) = order

\* Reached: a call of show_column with show_embeddings under column " B" has
\* returned.
C7_Witness ==
    \E i \in Idx :
        /\ trace[i].kind = "show_call"
        /\ trace[i].show_embeddings
        /\ trace[i].column_id = " B"
        /\ ShowDone(i)

\* C8: once the top-level code has run, however often, the logger has exactly
\* two handlers, the file handler and the stream handler, and ./log_files
\* exists; no logging call is emitted more than once by either.
C8_LoggerSetupIdempotent ==
    /\ (pc = "start" /\ runs = 1) => logs.handlers = << >>
    /\ (pc # "start" \/ runs > 1) =>
          /\ Len(logs.handlers) = 2
          /\ Emitted(logs.handlers, "file", INFO) = 1
          /\ Emitted(logs.handlers, "stream", WARNING) = 1
          /\ log_files
    /\ last_log.file <= 1
    /\ last_log.stream <= 1

\* Reached: the second execution of the script has emitted a warning, once.
C8_Witness ==
    /\ runs = 2
    /\ pc = "load_body"
    /\ last_log.levelno = WARNING
    /\ last_log.stream = 1
    /\ last_log.file = 1

\* C9: an INFO message logged through the module logger is written to the log
\* file by the file handler, and the stream handler emits only messages of
\* level WARNING or above.
C9_InfoWrittenToFile ==
    /\ last_log.levelno = INFO => last_log.file = 1
    /\ last_log.stream > 0 => last_log.levelno >= WARNING

==========================================================================
